---- MODULE Spec2Model ----
(***************************************************************************)
(* Model of dsl.py (DSL - easy Display Setup for Laptops).                 *)
(*                                                                         *)
(* The orchestrator (the __main__ block) is a sequence of blocking steps;  *)
(* every step that talks to a collaborator (gui, screen, xrandr,           *)
(* xbacklight) is one action whose outcome is chosen nondeterministically  *)
(* among the outcomes the collaborator can produce.  Text is modelled as   *)
(* sequences of one-character strings, so that strip(), index(), lower()   *)
(* and shlex.split() are computed character by character.                  *)
(*                                                                         *)
(* Python's None is the empty tuple, a present value v is <<v>>.           *)
(***************************************************************************)
EXTENDS Integers, Sequences, FiniteSets, TLC

VARIABLES
    pc,          \* position of the __main__ block
    argv,        \* the raw command line
    cmdArgs,     \* parser.parse_args() result
    frontend,    \* the module-level name `frontend`
    config,      \* loadConfigFile(...) result
    sitArgs,     \* arguments handed to screen.ScreenSituation, None before
    situation,   \* the ScreenSituation
    setup,       \* the ScreenSetup, None until built
    calls,       \* history: collaborator interactions, in order
    exitStatus,  \* None while running, else the process exit status
    raised,      \* None, or the exception that ended the run
    backlight,   \* turnOnBacklight's local: None, or the brightness read
    cfgFile,     \* loader specification: the file handed to loadConfigFile
    cfgOut       \* loader specification: None, or what loadConfigFile gave

vars == <<pc, argv, cmdArgs, frontend, config, sitArgs, situation, setup,
          calls, exitStatus, raised, backlight, cfgFile, cfgOut>>

mainVars == <<pc, argv, cmdArgs, frontend, config, sitArgs, situation, setup,
              calls, exitStatus, raised, backlight>>

None == <<>>
Some(v) == <<v>>

(***************************************************************************)
(* Bounds                                                                  *)
(***************************************************************************)
MaxLines == 2      \* lines in a config file of the loader specification
MaxLineLen == 1    \* length of the exhaustively enumerated lines
MaxRes == 2        \* resolutions a connector reports

(***************************************************************************)
(* Text helpers                                                            *)
(***************************************************************************)
RECURSIVE Join(_)
Join(cs) == IF cs = <<>> THEN "" ELSE Head(cs) \o Join(Tail(cs))

Whitespace == {" ", "\t"}

RECURSIVE lstrip(_)
lstrip(cs) ==
    IF cs # <<>> /\ Head(cs) \in Whitespace THEN lstrip(Tail(cs)) ELSE cs

RECURSIVE rstrip(_)
rstrip(cs) ==
    IF cs # <<>> /\ cs[Len(cs)] \in Whitespace
    THEN rstrip(SubSeq(cs, 1, Len(cs) - 1))
    ELSE cs

strip(cs) == rstrip(lstrip(cs))

\* str.index: 1-based here; 0 stands for the ValueError
RECURSIVE indexFrom(_, _, _)
indexFrom(cs, c, i) ==
    IF i > Len(cs) THEN 0
    ELSE IF cs[i] = c THEN i
    ELSE indexFrom(cs, c, i + 1)

index(cs, c) == indexFrom(cs, c, 1)

(***************************************************************************)
(* shlex.split(s): posix mode, whitespace_split, no comment characters.    *)
(* The lexer's character loop, with the token boundaries of read_token     *)
(* folded in.  Result: [ok |-> TRUE, tokens |-> ...] or [ok |-> FALSE].    *)
(***************************************************************************)
Quotes == {"'", "\""}
Escape == {"\\"}
EscapedQuotes == {"\""}

emit(out, tok, quoted) ==
    IF tok # "" \/ quoted THEN Append(out, tok) ELSE out

RECURSIVE lex(_, _, _, _, _, _, _)
lex(cs, i, st, esc, tok, quoted, out) ==
    IF i > Len(cs) THEN
        IF st \in Quotes \/ st \in Escape
        THEN [ok |-> FALSE]   \* No closing quotation / No escaped character
        ELSE [ok |-> TRUE, tokens |-> emit(out, tok, quoted)]
    ELSE LET c == cs[i] IN
        IF st = " " THEN
            IF c \in Whitespace THEN lex(cs, i + 1, " ", esc, tok, quoted, out)
            ELSE IF c \in Escape THEN lex(cs, i + 1, c, "a", tok, quoted, out)
            ELSE IF c \in Quotes THEN lex(cs, i + 1, c, esc, tok, quoted, out)
            ELSE lex(cs, i + 1, "a", esc, c, quoted, out)
        ELSE IF st \in Quotes THEN
            IF c = st THEN lex(cs, i + 1, "a", esc, tok, TRUE, out)
            ELSE IF c \in Escape /\ st \in EscapedQuotes
                 THEN lex(cs, i + 1, c, st, tok, TRUE, out)
            ELSE lex(cs, i + 1, st, esc, tok \o c, TRUE, out)
        ELSE IF st \in Escape THEN
            IF esc \in Quotes /\ c # st /\ c # esc
            THEN lex(cs, i + 1, esc, esc, (tok \o st) \o c, TRUE, out)
            ELSE lex(cs, i + 1, esc, esc, tok \o c, TRUE, out)
        ELSE \* st = "a"
            IF c \in Whitespace
            THEN lex(cs, i + 1, " ", esc, "", FALSE, emit(out, tok, quoted))
            ELSE IF c \in Quotes THEN lex(cs, i + 1, c, esc, tok, quoted, out)
            ELSE IF c \in Escape THEN lex(cs, i + 1, c, "a", tok, quoted, out)
            ELSE lex(cs, i + 1, "a", esc, tok \o c, quoted, out)

shlex_split(cs) == lex(cs, 1, " ", " ", "", FALSE, <<>>)

(***************************************************************************)
(* loadConfigFile                                                          *)
(***************************************************************************)
EmptyDict == [k \in {} |-> <<>>]

setitem(d, k, v) == [x \in DOMAIN d \cup {k} |-> IF x = k THEN v ELSE d[x]]

isSkipped_emptyOnly(line) == Len(line) = 0

\* the guard of the `continue`: empty and comment lines
isSkipped(line) == Len(line) = 0 \/ Head(line) = "#"

\* the body of the try block for one stripped line: the updated mapping,
\* or ok = FALSE when index() or shlex.split() raised
parseLine(result, line) ==
    LET pos == index(line, "=") IN
    IF pos = 0 THEN [ok |-> FALSE]
    ELSE LET curKey == Join(strip(SubSeq(line, 1, pos - 1)))
             val == shlex_split(SubSeq(line, pos + 1, Len(line)))
         IN  IF val.ok
             THEN [ok |-> TRUE, result |-> setitem(result, curKey, val.tokens)]
             ELSE [ok |-> FALSE]

\* the counter the error message cites, as the loop advances it
nextLinenr(linenr) == linenr + 1

\* the for loop over the lines still unread
RECURSIVE readLines(_, _, _)
readLines(lines, linenr, result) ==
    IF lines = <<>> THEN [ok |-> TRUE, result |-> result]
    ELSE LET nr == nextLinenr(linenr)
             line == strip(Head(lines))
         IN  IF isSkipped(line) THEN readLines(Tail(lines), nr, result)
             ELSE LET p == parseLine(result, line) IN
                  IF p.ok THEN readLines(Tail(lines), nr, p.result)
                  ELSE [ok |-> FALSE, linenr |-> nr]

\* file: None when the path does not exist, else <<lines>>
loadConfigFile(file) ==
    IF file = None THEN [ok |-> TRUE, result |-> EmptyDict]
    ELSE readLines(file[1], 0, EmptyDict)

(***************************************************************************)
(* Loader specification: loadConfigFile applied to every bounded file.     *)
(***************************************************************************)
Alphabet == {" ", "#", "=", "a", "'"}

ShortLines == UNION {[1..n -> Alphabet] : n \in 0..MaxLineLen}

LongLines == {
    <<" ","a"," ","="," ","a"," "," ","a"," ">>,   \* two tokens, padded
    <<"a","=","'","a"," ","a","'">>,               \* one quoted token
    <<"a","=","'","a">>,                           \* quote never closed
    <<"#","a","=","a">>,                           \* comment
    <<" ","#","=">>,                               \* comment once trimmed
    <<"a","=","a","=","a">>,                       \* '=' inside the value
    <<"a","a","=","#">>,                           \* '#' inside the value
    <<"a"," ","a">>,                               \* no '='
    <<"a","#","=","a">>,                           \* '#' inside the key
    <<"=","'","'">> }                              \* empty key, empty token

Lines == ShortLines \cup LongLines

Files == UNION {[1..n -> Lines] : n \in 0..MaxLines}

\* the main block before it starts, shared by both specifications
MainIdle ==
    /\ pc = "args"
    /\ cmdArgs = None
    /\ frontend = "cli"
    /\ config = None
    /\ sitArgs = None
    /\ situation = None
    /\ setup = None
    /\ calls = <<>>
    /\ exitStatus = None
    /\ raised = None
    /\ backlight = None

NoArgv == [frontend |-> None, rel_position |-> None,
           external_only |-> FALSE, internal_only |-> FALSE]

InitCfg ==
    /\ MainIdle
    /\ argv = NoArgv
    /\ cfgFile \in {None} \cup {Some(f) : f \in Files}
    /\ cfgOut = None

LoadCfg ==
    /\ cfgOut = None
    /\ cfgOut' = Some(loadConfigFile(cfgFile))
    /\ UNCHANGED <<cfgFile, mainVars>>

NextCfg == LoadCfg

SpecCfg == InitCfg /\ [][NextCfg]_vars

(***************************************************************************)
(* screen.RelativeScreenPosition and the CLI filter                        *)
(***************************************************************************)
\* RelativeScreenPosition.__members__, in declaration order
RelativeScreenPosition == <<
    [name |-> <<"L","E","F","T">>,         value |-> "LEFT"],
    [name |-> <<"R","I","G","H","T">>,     value |-> "RIGHT"],
    [name |-> <<"A","B","O","V","E">>,     value |-> "ABOVE"],
    [name |-> <<"B","E","L","O","W">>,     value |-> "BELOW"],
    [name |-> <<"M","I","R","R","O","R">>, value |-> "MIRROR"] >>

UpperCase == <<"A","B","C","D","E","F","G","H","I","J","K","L","M",
               "N","O","P","Q","R","S","T","U","V","W","X","Y","Z">>
LowerCase == <<"a","b","c","d","e","f","g","h","i","j","k","l","m",
               "n","o","p","q","r","s","t","u","v","w","x","y","z">>

lowerChar(c) ==
    IF \E i \in 1..Len(UpperCase) : UpperCase[i] = c
    THEN LowerCase[CHOOSE i \in 1..Len(UpperCase) : UpperCase[i] = c]
    ELSE c

\* str.lower
lower(cs) == [i \in 1..Len(cs) |-> lowerChar(cs[i])]

relPosFilter(name) == lower(name)

\* choices= of --relative-position
relPositionChoices ==
    {relPosFilter(RelativeScreenPosition[i].name) :
        i \in 1..Len(RelativeScreenPosition)}

(***************************************************************************)
(* screen.ScreenSituation and screen.ScreenSetup                           *)
(***************************************************************************)
Resolutions == {"1920x1080", "1366x768", "1280x1024"}

\* what a connected connector reports: a non-empty list, no entry twice
ResolutionLists ==
    {l \in UNION {[1..n -> Resolutions] : n \in 1..MaxRes} :
        \A i, j \in 1..Len(l) : i # j => l[i] # l[j]}

Situations ==
    [internal : ResolutionLists,
     external : {None} \cup {Some(l) : l \in ResolutionLists}]

internalResolutions(sit) == sit.internal

\* None when no external screen is connected
externalResolutions(sit) == sit.external

\* the resolutions both connectors report, in the internal connector's
\* order; fails when there is none
commonResolutions(sit) ==
    LET common == SelectSeq(sit.internal,
                      LAMBDA r : \E i \in 1..Len(sit.external[1]) :
                                     sit.external[1][i] = r)
    IN  IF common = <<>>
        THEN [raises |-> "NoCommonResolutionError", list |-> <<>>]
        ELSE [raises |-> "", list |-> common]

ScreenSetup(intResolution, extResolution, relPosition) ==
    [intResolution |-> intResolution, extResolution |-> extResolution,
     relPosition |-> relPosition]

\* what frontend.setup(situation) can hand back: None (cancelled) or a setup
\* made of the situation's resolutions
FrontendAnswers(sit) ==
    LET ints == {sit.internal[i] : i \in 1..Len(sit.internal)}
        exts == IF sit.external = None THEN {}
                ELSE {sit.external[1][i] : i \in 1..Len(sit.external[1])}
        poss == {RelativeScreenPosition[i].value :
                    i \in 1..Len(RelativeScreenPosition)}
    IN  {None}
        \cup {Some(ScreenSetup(Some(r), None, None)) : r \in ints}
        \cup {Some(ScreenSetup(None, Some(r), None)) : r \in exts}
        \cup {Some(ScreenSetup(Some(r[1]), Some(r[2]), Some(r[3]))) :
                r \in ints \X exts \X poss}

(***************************************************************************)
(* situationByConfig                                                       *)
(***************************************************************************)
commonInternalConnectorPrefixes == <<"LVDS", "eDP">>
commonInternalConnectorSuffices == <<"", "0", "1", "-0", "-1">>

\* the generator, drained: prefix loop outside, suffix loop inside
commonInternalConnectorNames ==
    LET P == commonInternalConnectorPrefixes
        S == commonInternalConnectorSuffices
    IN  [i \in 1..(Len(P) * Len(S)) |->
            P[((i - 1) \div Len(S)) + 1] \o S[((i - 1) % Len(S)) + 1]]

\* dict.get
get(d, k) == IF k \in DOMAIN d THEN Some(d[k]) ELSE None

situationByConfig_atMostOne(cfg) ==
    IF "internalConnector" \in DOMAIN cfg /\ Len(cfg["internalConnector"]) > 1
    THEN [raises |-> TRUE, internalConnectors |-> <<>>,
          externalConnectors |-> None]
    ELSE [raises |-> FALSE,
          internalConnectors |-> IF "internalConnector" \in DOMAIN cfg
                                 THEN cfg["internalConnector"]
                                 ELSE commonInternalConnectorNames,
          externalConnectors |-> get(cfg, "externalConnectors")]

\* the arguments situationByConfig hands to screen.ScreenSituation, or the
\* exception it raises before the call
situationByConfig(cfg) ==
    IF "internalConnector" \in DOMAIN cfg
    THEN IF Len(cfg["internalConnector"]) # 1
         THEN [raises |-> TRUE, internalConnectors |-> <<>>,
               externalConnectors |-> None]
         ELSE [raises |-> FALSE,
               internalConnectors |-> cfg["internalConnector"],
               externalConnectors |-> get(cfg, "externalConnectors")]
    ELSE [raises |-> FALSE,
          internalConnectors |-> commonInternalConnectorNames,
          externalConnectors |-> get(cfg, "externalConnectors")]

(***************************************************************************)
(* The construction of the ScreenSetup in __main__                         *)
(***************************************************************************)
built(s, asked) == [kind |-> "setup", setup |-> Some(s), asked |-> asked, exc |-> ""]
cancelled == [kind |-> "cancel", setup |-> None, asked |-> TRUE, exc |-> ""]
failed(exc, asked) == [kind |-> "raise", setup |-> None, asked |-> asked, exc |-> exc]

useExternalScreen_ignoresInternalOnly(args, sit) ==
    externalResolutions(sit) # None

\* the condition that opens the construction: an external screen is
\* connected and --internal-only was not given
useExternalScreen(args, sit) ==
    ~args.internal_only /\ externalResolutions(sit) # None

externalOnlySetup_keepsInternal(sit) ==
    ScreenSetup(Some(internalResolutions(sit)[1]),
                Some(externalResolutions(sit)[1][1]), None)

\* --external-only
externalOnlySetup(sit) ==
    ScreenSetup(None, Some(externalResolutions(sit)[1][1]), None)

lookupRelPos_unfiltered(rel_position) ==
    SelectSeq(RelativeScreenPosition, LAMBDA m : m.name = rel_position)

\* the members whose filtered name is the CLI value
lookupRelPos(rel_position) ==
    SelectSeq(RelativeScreenPosition,
              LAMBDA m : relPosFilter(m.name) = rel_position)

mirrorSetup_firstInternal(sit, relPos) ==
    built(ScreenSetup(Some(internalResolutions(sit)[1]),
                      Some(internalResolutions(sit)[1]), Some(relPos)), FALSE)

\* res = situation.commonResolutions()[0], used for both screens
mirrorSetup(sit, relPos) ==
    LET common == commonResolutions(sit) IN
    IF common.raises # "" THEN failed(common.raises, FALSE)
    ELSE IF common.list = <<>> THEN failed("IndexError", FALSE)
    ELSE built(ScreenSetup(Some(common.list[1]), Some(common.list[1]),
                           Some(relPos)), FALSE)

\* the other positions: the first resolution of each screen
positionedSetup(sit, relPos) ==
    ScreenSetup(Some(internalResolutions(sit)[1]),
                Some(externalResolutions(sit)[1][1]), Some(relPos))

\* use first resolution of internal connector
internalOnlySetup(sit) ==
    ScreenSetup(Some(internalResolutions(sit)[1]), None, None)

\* args: cmdArgs; sit: the situation; answer, frontendFails: what
\* frontend.setup(situation) does if it is called
buildSetup(args, sit, answer, frontendFails) ==
    IF useExternalScreen(args, sit)
    THEN IF args.external_only
         THEN built(externalOnlySetup(sit), FALSE)
         ELSE IF args.rel_position # None
         THEN LET relPos == lookupRelPos(args.rel_position[1]) IN
              IF Len(relPos) # 1 THEN failed("AssertionError", FALSE)
              ELSE IF relPos[1].value = "MIRROR"
              THEN mirrorSetup(sit, relPos[1].value)
              ELSE built(positionedSetup(sit, relPos[1].value), FALSE)
         ELSE IF frontendFails THEN failed("Exception", TRUE)
         ELSE IF answer = None THEN cancelled
         ELSE built(answer[1], TRUE)
    ELSE built(internalOnlySetup(sit), FALSE)

(***************************************************************************)
(* turnOnBacklight                                                         *)
(***************************************************************************)
\* what running xbacklight can do: exc is "" when the process ran and exited
\* zero; out is the brightness it printed, None when the text is no number
GetOutcomes ==
    {[exc |-> "", out |-> Some(0)], [exc |-> "", out |-> Some(50)],
     [exc |-> "", out |-> None],
     [exc |-> "FileNotFoundError", out |-> None],
     [exc |-> "CalledProcessError", out |-> None],
     [exc |-> "PermissionError", out |-> None]}

SetOutcomes == {"", "FileNotFoundError", "CalledProcessError", "PermissionError"}

\* one finished call of a step or collaborator and how it ended
call(op, arg) == [op |-> op, arg |-> arg]

outcome(exc) == IF exc = "" THEN "ok" ELSE exc

\* the except clauses of turnOnBacklight: the exceptions answered by a print
backlightCaught == {"FileNotFoundError", "CalledProcessError"}

\* the calls made, the brightness read, and the exception that leaves the
\* function
turnOnBacklight(got, setExc) ==
    LET exc1 == IF got.exc # "" THEN got.exc
                ELSE IF got.out = None THEN "ValueError" ELSE ""
        sets == exc1 = "" /\ got.out[1] = 0
        exc == IF sets THEN setExc ELSE exc1
        log == <<call("xbacklight -get", outcome(exc1))>>
               \o (IF sets THEN <<call("xbacklight -set 100", outcome(setExc))>>
                   ELSE <<>>)
    IN  [calls |-> IF exc \in backlightCaught
                   THEN Append(log, call("print", exc)) ELSE log,
         backlight |-> IF exc1 = "" THEN got.out ELSE None,
         exc |-> IF exc \in backlightCaught THEN "" ELSE exc]

needsBacklight_internalOn(s) == s.intResolution # None

\* if setup.extResolution is None
needsBacklight(s) == s.extResolution = None

(***************************************************************************)
(* The __main__ block                                                      *)
(***************************************************************************)
\* values of --relative-position a user may type: the five choices, one in
\* upper case and one that names no position
RawPositions ==
    relPositionChoices \cup {<<"L","E","F","T">>, <<"u","p">>}

Argvs ==
    [frontend : {None, Some("qt")},
     rel_position : {None} \cup {Some(p) : p \in RawPositions},
     external_only : BOOLEAN,
     internal_only : BOOLEAN]

\* ~/.dsl.conf as the run may find it
MainFiles == {
    None,
    Some(<< <<"#"," ","m","y"," ","l","a","p","t","o","p">>,
            <<"i","n","t","e","r","n","a","l","C","o","n","n","e","c","t","o","r"," ","="," ","e","D","P">>,
            <<"e","x","t","e","r","n","a","l","C","o","n","n","e","c","t","o","r","s","=","H","D","M","I","-","1"," ","'","D","P"," ","1","'">> >>),
    Some(<< <<"i","n","t","e","r","n","a","l","C","o","n","n","e","c","t","o","r","=","e","D","P"," ","V","G","A">> >>),
    Some(<< <<"i","n","t","e","r","n","a","l","C","o","n","n","e","c","t","o","r","=">> >>),
    Some(<< <<>>,
            <<"i","n","t","e","r","n","a","l","C","o","n","n","e","c","t","o","r"," ","e","D","P">> >>) }

\* the frontend auto-detection settles on when no name is given
DetectedFrontends == {"qt"}

\* gui.getFrontend(name): the named frontend when it is available, the
\* detected one when no name is given
getFrontend(name, available, detected) ==
    IF name = None THEN [raises |-> FALSE, frontend |-> detected]
    ELSE IF available THEN [raises |-> FALSE, frontend |-> name[1]]
    ELSE [raises |-> TRUE, frontend |-> ""]

errorChannel_silent(log, fe) == log

\* except Exception as e: frontend.error(str(e))
errorChannel(log, fe) == Append(log, call("frontend.error", fe))

\* an Exception leaves the try block: the handler reports it and re-raises
Raise(step, exc, log) ==
    /\ calls' = errorChannel(log, frontend)
    /\ raised' = Some([exc |-> exc, step |-> step])
    /\ exitStatus' = Some(1)
    /\ pc' = "exit"

SystemExit_caught(status, log) == Raise("setup", "SystemExit", log)

\* sys.exit(status): SystemExit is no Exception, the handler does not run
SystemExit(status, log) ==
    /\ calls' = log
    /\ raised' = None
    /\ exitStatus' = Some(status)
    /\ pc' = "exit"

Continue(next, log) ==
    /\ calls' = log
    /\ pc' = next
    /\ UNCHANGED <<raised, exitStatus>>

Init ==
    /\ MainIdle
    /\ argv \in Argvs
    /\ cfgFile = None
    /\ cfgOut = None

ParseArgs ==
    /\ pc = "args"
    /\ IF argv.rel_position # None /\ argv.rel_position[1] \notin relPositionChoices
       THEN /\ SystemExit(2, calls)
            /\ UNCHANGED cmdArgs
       ELSE /\ cmdArgs' = Some(argv)
            /\ Continue("frontend", calls)
    /\ UNCHANGED <<argv, frontend, config, sitArgs, situation, setup, backlight,
                   cfgFile, cfgOut>>

SelectFrontend ==
    /\ pc = "frontend"
    /\ \E available \in BOOLEAN, detected \in DetectedFrontends :
        LET got == getFrontend(cmdArgs[1].frontend, available, detected) IN
        IF got.raises
        THEN /\ Raise("frontend", "Exception",
                      Append(calls, call("getFrontend", "Exception")))
             /\ UNCHANGED frontend
        ELSE /\ frontend' = got.frontend
             /\ Continue("config", Append(calls, call("getFrontend", "ok")))
    /\ UNCHANGED <<argv, cmdArgs, config, sitArgs, situation, setup, backlight,
                   cfgFile, cfgOut>>

LoadConfig ==
    /\ pc = "config"
    /\ \E file \in MainFiles :
        LET got == loadConfigFile(file) IN
        IF got.ok
        THEN /\ config' = Some(got.result)
             /\ Continue("situation", Append(calls, call("loadConfigFile", "ok")))
        ELSE /\ Raise("config", "Exception",
                      Append(calls, call("loadConfigFile", "Exception")))
             /\ UNCHANGED config
    /\ UNCHANGED <<argv, cmdArgs, frontend, sitArgs, situation, setup, backlight,
                   cfgFile, cfgOut>>

DetectSituation ==
    /\ pc = "situation"
    /\ LET by == situationByConfig(config[1]) IN
       IF by.raises
       THEN /\ Raise("situation", "Exception",
                     Append(calls, call("situationByConfig", "Exception")))
            /\ UNCHANGED <<sitArgs, situation>>
       ELSE /\ sitArgs' = Some(<<by.internalConnectors, by.externalConnectors>>)
            /\ \E found \in {None} \cup {Some(s) : s \in Situations} :
                IF found = None
                THEN /\ Raise("situation", "Exception",
                              Append(calls, call("ScreenSituation", "Exception")))
                     /\ UNCHANGED situation
                ELSE /\ situation' = found
                     /\ Continue("setup", Append(calls, call("ScreenSituation", "ok")))
    /\ UNCHANGED <<argv, cmdArgs, frontend, config, setup, backlight,
                   cfgFile, cfgOut>>

BuildSetup ==
    /\ pc = "setup"
    /\ \E answer \in FrontendAnswers(situation[1]), frontendFails \in BOOLEAN :
        LET got == buildSetup(cmdArgs[1], situation[1], answer, frontendFails)
            log == IF got.asked
                   THEN Append(calls, call("frontend.setup",
                               CASE got.kind = "setup" -> "ok"
                                 [] got.kind = "cancel" -> "None"
                                 [] got.kind = "raise" -> got.exc))
                   ELSE calls
        IN  /\ setup' = got.setup
            /\ CASE got.kind = "setup" -> Continue("format", log)
                 [] got.kind = "cancel" -> SystemExit(1, log)
                 [] got.kind = "raise" ->
                        Raise("setup", got.exc,
                              IF got.asked THEN log
                              ELSE Append(log, call("ScreenSetup", got.exc)))
    /\ UNCHANGED <<argv, cmdArgs, frontend, config, sitArgs, situation, backlight,
                   cfgFile, cfgOut>>

\* situation.forXrandr(setup) and the print of the call
Format ==
    /\ pc = "format"
    /\ \E fails \in BOOLEAN :
        IF fails
        THEN Raise("format", "Exception", Append(calls, call("forXrandr", "Exception")))
        ELSE Continue("xrandr", Append(calls, call("forXrandr", "ok")))
    /\ UNCHANGED <<argv, cmdArgs, frontend, config, sitArgs, situation, setup,
                   backlight, cfgFile, cfgOut>>

\* subprocess.check_call(xrandrCall)
CallXrandr ==
    /\ pc = "xrandr"
    /\ \E exc \in {"", "CalledProcessError", "FileNotFoundError"} :
        IF exc # ""
        THEN Raise("xrandr", exc, Append(calls, call("xrandr", exc)))
        ELSE Continue("backlight", Append(calls, call("xrandr", "ok")))
    /\ UNCHANGED <<argv, cmdArgs, frontend, config, sitArgs, situation, setup,
                   backlight, cfgFile, cfgOut>>

\* if setup.extResolution is None: turnOnBacklight(); then the block ends
Backlight ==
    /\ pc = "backlight"
    /\ IF needsBacklight(setup[1])
       THEN \E got \in GetOutcomes, setExc \in SetOutcomes :
            LET b == turnOnBacklight(got, setExc) IN
            /\ backlight' = b.backlight
            /\ IF b.exc # ""
               THEN Raise("backlight", b.exc, calls \o b.calls)
               ELSE /\ calls' = calls \o b.calls
                    /\ exitStatus' = Some(0)
                    /\ pc' = "done"
                    /\ UNCHANGED raised
       ELSE /\ exitStatus' = Some(0)
            /\ pc' = "done"
            /\ UNCHANGED <<calls, raised, backlight>>
    /\ UNCHANGED <<argv, cmdArgs, frontend, config, sitArgs, situation, setup,
                   cfgFile, cfgOut>>

Next ==
    \/ ParseArgs
    \/ SelectFrontend
    \/ LoadConfig
    \/ DetectSituation
    \/ BuildSetup
    \/ Format
    \/ CallXrandr
    \/ Backlight

Spec == Init /\ [][Next]_vars

(***************************************************************************)
(* Properties                                                              *)
(***************************************************************************)
Called(op) == \E i \in 1..Len(calls) : calls[i].op = op

\* the ScreenSetup construction has run (to a setup, a cancel or an error)
SetupStepOver == situation # None /\ pc # "setup"

Elems(l) == {l[i] : i \in 1..Len(l)}

\* C1: when --internal-only is given or no external screen is connected,
\* whatever the other flags are, the setup has the first internal resolution,
\* no external resolution, and the frontend was not asked for a setup.
C1_InternalOnly ==
    (SetupStepOver /\ (cmdArgs[1].internal_only \/ situation[1].external = None))
    => /\ setup # None
       /\ setup[1].intResolution = Some(situation[1].internal[1])
       /\ setup[1].extResolution = None
       /\ ~Called("frontend.setup")

C1_Witness ==
    /\ SetupStepOver
    /\ cmdArgs[1].internal_only /\ cmdArgs[1].external_only
    /\ cmdArgs[1].rel_position # None
    /\ situation[1].external # None
    /\ setup # None /\ setup[1].extResolution = None

\* C2 as stated: with --external-only and an external screen connected the
\* setup has the first external resolution and no internal one, whatever the
\* other flags are.
C2_ExternalOnly_AnyFlags ==
    (SetupStepOver /\ cmdArgs[1].external_only /\ situation[1].external # None)
    => /\ setup # None
       /\ setup[1].extResolution = Some(situation[1].external[1][1])
       /\ setup[1].intResolution = None

\* C2 amended: with --external-only, without --internal-only, and an external
\* screen connected, the setup has the first external resolution and no
\* internal one, whatever --relative-position is.
C2_ExternalOnly ==
    (/\ SetupStepOver
     /\ cmdArgs[1].external_only /\ ~cmdArgs[1].internal_only
     /\ situation[1].external # None)
    => /\ setup # None
       /\ setup[1].extResolution = Some(situation[1].external[1][1])
       /\ setup[1].intResolution = None
       /\ ~Called("frontend.setup")

C2_Witness ==
    /\ SetupStepOver
    /\ cmdArgs[1].external_only /\ ~cmdArgs[1].internal_only
    /\ cmdArgs[1].rel_position # None
    /\ situation[1].external # None
    /\ Len(situation[1].external[1]) > 1
    /\ setup # None /\ setup[1].intResolution = None

Shared(sit) == Elems(sit.internal) \cap Elems(sit.external[1])

FirstShared(sit) ==
    sit.internal[CHOOSE i \in 1..Len(sit.internal) :
                    /\ sit.internal[i] \in Shared(sit)
                    /\ \A j \in 1..(i - 1) : sit.internal[j] \notin Shared(sit)]

MirrorCase ==
    /\ SetupStepOver
    /\ ~cmdArgs[1].internal_only /\ ~cmdArgs[1].external_only
    /\ cmdArgs[1].rel_position = Some(<<"m","i","r","r","o","r">>)
    /\ situation[1].external # None

CliName ==
    [p \in {"LEFT", "RIGHT", "ABOVE", "BELOW", "MIRROR"} |->
        CASE p = "LEFT" -> <<"l","e","f","t">>
          [] p = "RIGHT" -> <<"r","i","g","h","t">>
          [] p = "ABOVE" -> <<"a","b","o","v","e">>
          [] p = "BELOW" -> <<"b","e","l","o","w">>
          [] p = "MIRROR" -> <<"m","i","r","r","o","r">>]

PositionsNamed(cli) == {p \in DOMAIN CliName : CliName[p] = cli}

PositionCase(p) ==
    /\ SetupStepOver
    /\ ~cmdArgs[1].internal_only /\ ~cmdArgs[1].external_only
    /\ cmdArgs[1].rel_position = Some(CliName[p])
    /\ situation[1].external # None

\* C4: with position left, right, above or below (no --internal-only, no
\* --external-only, an external screen connected) the setup has the first
\* internal resolution, the first external resolution and that position; an
\* accepted CLI value names exactly one position and the lookup never fails;
\* the frontend is asked for a setup only when no position, --external-only
\* or --internal-only was given.
C4_Position ==
    /\ \A p \in {"LEFT", "RIGHT", "ABOVE", "BELOW"} :
        PositionCase(p) =>
            setup = Some(ScreenSetup(Some(situation[1].internal[1]),
                                     Some(situation[1].external[1][1]),
                                     Some(p)))
    /\ (cmdArgs # None /\ cmdArgs[1].rel_position # None)
        => Cardinality(PositionsNamed(cmdArgs[1].rel_position[1])) = 1
    /\ raised # None => raised[1].exc # "AssertionError"
    /\ Called("frontend.setup")
        => /\ cmdArgs[1].rel_position = None
           /\ ~cmdArgs[1].external_only
           /\ ~cmdArgs[1].internal_only

C4_Witness ==
    /\ PositionCase("BELOW")
    /\ situation[1].internal[1] # situation[1].external[1][1]
    /\ setup # None /\ setup[1].relPosition = Some("BELOW")

UserCancelled == \E i \in 1..Len(calls) : calls[i] = call("frontend.setup", "None")

\* C5: when frontend.setup returns None the process ends with exit status 1;
\* xrandr and xbacklight are never called and nothing is sent to
\* frontend.error.
C5_Cancel ==
    UserCancelled
    => /\ pc = "exit"
       /\ exitStatus = Some(1)
       /\ raised = None
       /\ ~Called("forXrandr") /\ ~Called("xrandr")
       /\ ~Called("xbacklight -get") /\ ~Called("xbacklight -set 100")
       /\ ~Called("frontend.error")

C5_Witness == UserCancelled /\ exitStatus = Some(1)

StepRank ==
    [s \in {"frontend", "config", "situation", "setup", "format", "xrandr", "backlight"} |->
        CASE s = "frontend" -> 1 [] s = "config" -> 2 [] s = "situation" -> 3
          [] s = "setup" -> 4 [] s = "format" -> 5 [] s = "xrandr" -> 6
          [] s = "backlight" -> 7]

OpStep(op) ==
    CASE op = "getFrontend" -> "frontend"
      [] op = "loadConfigFile" -> "config"
      [] op \in {"situationByConfig", "ScreenSituation"} -> "situation"
      [] op \in {"frontend.setup", "ScreenSetup"} -> "setup"
      [] op = "forXrandr" -> "format"
      [] op = "xrandr" -> "xrandr"
      [] op \in {"xbacklight -get", "xbacklight -set 100", "print"} -> "backlight"

BacklightOps == {"xbacklight -get", "xbacklight -set 100"}

\* C6: a failure of any step but the backlight one is reported exactly once,
\* through the frontend then bound to `frontend`, as the last thing the run
\* does; the exit status is not zero; no later step has run; and no such
\* failure goes unreported.
C6_ErrorPropagation ==
    /\ (raised # None /\ raised[1].step # "backlight")
        => /\ pc = "exit"
           /\ exitStatus # None /\ exitStatus[1] # 0
           /\ Len(calls) >= 2
           /\ calls[Len(calls)] = call("frontend.error", frontend)
           /\ Cardinality({i \in 1..Len(calls) : calls[i].op = "frontend.error"}) = 1
           /\ calls[Len(calls) - 1].arg = raised[1].exc
           /\ OpStep(calls[Len(calls) - 1].op) = raised[1].step
           /\ \A i \in 1..(Len(calls) - 1) :
                StepRank[OpStep(calls[i].op)] <= StepRank[raised[1].step]
    /\ \A i \in 1..Len(calls) :
        (/\ calls[i].op \notin BacklightOps \cup {"print", "frontend.error"}
         /\ calls[i].arg \notin {"ok", "None"})
        => /\ raised # None
           /\ raised[1].exc = calls[i].arg
           /\ i = Len(calls) - 1

C6_Witness ==
    /\ raised # None /\ raised[1].step = "xrandr"
    /\ frontend = "qt"
    /\ calls[Len(calls)] = call("frontend.error", "qt")

\* C7 as stated: once xrandr has returned, a failure of xbacklight, of any
\* kind, is answered by a printed warning only: nothing goes to
\* frontend.error, nothing is re-raised, the exit status is 0.
C7_BacklightNeverFatal ==
    (\E i \in 1..Len(calls) :
        calls[i].op \in BacklightOps /\ calls[i].arg # "ok")
    => /\ pc = "done"
       /\ exitStatus = Some(0)
       /\ raised = None
       /\ Called("print")
       /\ ~Called("frontend.error")

XrandrReturned == \E i \in 1..Len(calls) : calls[i] = call("xrandr", "ok")

\* C8: xbacklight is queried exactly when xrandr has returned successfully
\* and the setup has no external resolution; the brightness is set to 100
\* only right after a query that read zero; with an external resolution
\* xbacklight is never called.
C8_BacklightOrder ==
    /\ \A i \in 1..Len(calls) :
        calls[i].op = "xbacklight -get"
        => /\ setup[1].extResolution = None
           /\ \E j \in 1..(i - 1) : calls[j] = call("xrandr", "ok")
    /\ (XrandrReturned /\ pc # "backlight" /\ setup[1].extResolution = None)
        => Called("xbacklight -get")
    /\ \A i \in 1..Len(calls) :
        calls[i].op = "xbacklight -set 100"
        => /\ i > 1
           /\ calls[i - 1] = call("xbacklight -get", "ok")
           /\ backlight = Some(0)
    /\ (setup # None /\ setup[1].extResolution # None)
        => ~Called("xbacklight -get") /\ ~Called("xbacklight -set 100")

C8_Witness ==
    /\ pc = "done"
    /\ Called("xbacklight -set 100")
    /\ backlight = Some(0)

IsBlankOrComment(l) == strip(l) = <<>> \/ strip(l)[1] = "#"

HasEq(l) == \E i \in 1..Len(l) : l[i] = "="

FirstEq(l) ==
    CHOOSE i \in 1..Len(l) : l[i] = "=" /\ \A j \in 1..(i - 1) : l[j] # "="

KeyOf(l) == Join(strip(SubSeq(strip(l), 1, FirstEq(strip(l)) - 1)))

ValueOf(l) == SubSeq(strip(l), FirstEq(strip(l)) + 1, Len(strip(l)))

WellFormed(l) ==
    ~IsBlankOrComment(l) /\ HasEq(l) /\ shlex_split(ValueOf(l)).ok

Failing(l) == ~IsBlankOrComment(l) /\ ~WellFormed(l)

\* C9: a missing file gives the empty mapping; otherwise blank and comment
\* lines are skipped, the first other line without '=' (or whose value does
\* not tokenize) makes the load fail citing that line's 1-based position,
\* skipped lines counted; and when no line fails the mapping's keys are the
\* keys of the well-formed lines, each mapped to the tokens of the value of
\* the last line that gives it.
C9_ConfigLoader ==
    cfgOut # None =>
        IF cfgFile = None
        THEN cfgOut[1].ok /\ DOMAIN cfgOut[1].result = {}
        ELSE LET lines == cfgFile[1]
                 bad == {i \in 1..Len(lines) : Failing(lines[i])}
                 good == {i \in 1..Len(lines) : WellFormed(lines[i])}
             IN  IF bad # {}
                 THEN /\ ~cfgOut[1].ok
                      /\ cfgOut[1].linenr \in bad
                      /\ \A i \in bad : cfgOut[1].linenr <= i
                 ELSE /\ cfgOut[1].ok
                      /\ DOMAIN cfgOut[1].result = {KeyOf(lines[i]) : i \in good}
                      /\ \A i \in good :
                            (\A j \in good : j > i => KeyOf(lines[j]) # KeyOf(lines[i]))
                            => cfgOut[1].result[KeyOf(lines[i])]
                                 = shlex_split(ValueOf(lines[i])).tokens

C9_Witness ==
    /\ cfgOut # None /\ cfgFile # None
    /\ Len(cfgFile[1]) = 2
    /\ IsBlankOrComment(cfgFile[1][1]) /\ cfgFile[1][1] # <<>>
    /\ ~cfgOut[1].ok
    /\ cfgOut[1].linenr = 2

\* situationByConfig has run
SituationStepOver == config # None /\ pc # "situation"

\* C10: internalConnector with a number of tokens other than one ends the
\* run with a config error before ScreenSituation is called; with one token
\* that token alone is the internal candidate list; without the key the
\* candidates are the ten common names, prefix by prefix; externalConnectors
\* is handed over as configured, None when absent.
C10_SituationByConfig ==
    /\ (SituationStepOver /\ "internalConnector" \in DOMAIN config[1])
        => IF Len(config[1]["internalConnector"]) # 1
           THEN /\ raised = Some([exc |-> "Exception", step |-> "situation"])
                /\ sitArgs = None
                /\ ~Called("ScreenSituation")
           ELSE /\ sitArgs # None
                /\ sitArgs[1][1] = <<config[1]["internalConnector"][1]>>
    /\ (SituationStepOver /\ "internalConnector" \notin DOMAIN config[1])
        => /\ sitArgs # None
           /\ sitArgs[1][1] = <<"LVDS", "LVDS0", "LVDS1", "LVDS-0", "LVDS-1",
                                "eDP", "eDP0", "eDP1", "eDP-0", "eDP-1">>
    /\ sitArgs # None
        => /\ Called("ScreenSituation")
           /\ sitArgs[1][2] = IF "externalConnectors" \in DOMAIN config[1]
                              THEN Some(config[1]["externalConnectors"])
                              ELSE None

C10_Witness ==
    /\ SituationStepOver
    /\ "internalConnector" \in DOMAIN config[1]
    /\ Len(config[1]["internalConnector"]) = 0
    /\ raised # None

====
